---- MODULE Spec2Model ----
(***************************************************************************)
(* Model of src/app.py: the GPS-log analysis script.  One upload runs the  *)
(* script top to bottom: read the CSV, check the columns, sort by time,    *)
(* derive distance / elapsed time / speed, classify every row, group       *)
(* consecutive rows of equal status, drop short groups, compute the KPIs.  *)
(*                                                                         *)
(* The DataFrame df is modelled column by column: one sequence per column, *)
(* all of the same length; a column the script has not created yet is the  *)
(* empty sequence.  Times are whole seconds.  All fixes lie on one         *)
(* meridian and lat is measured in metres of arc along it, so that the     *)
(* haversine distance of two fixes is the absolute difference of their     *)
(* lat.  Speeds, thresholds and minutes are exact rationals [n, d], d > 0. *)
(***************************************************************************)
EXTENDS Integers, Sequences, FiniteSets, TLC

VARIABLES
  hand_threshold,     \* slider value, km/h (rational)
  crawler_threshold,  \* slider value, km/h (rational)
  csv,                \* rows of the uploaded file, in file order
  has_cols,           \* the file has the columns time, lat, lon
  pc,                 \* position of the script
  error,              \* what st.error has shown, "none" if nothing
  time, lat,          \* df columns read from the file
  dist_m, time_diff,  \* df columns derived at lines 79-81
  speed_kmh,          \* df column, line 84
  status,             \* df column, line 96
  group_id,           \* df column, line 101
  summary,            \* the summary frame, one record per row
  total_time,         \* minutes (rational)
  total_dist,         \* km (rational)
  time_hand, time_crawler, time_wheel   \* minutes (rational)

vars == << hand_threshold, crawler_threshold, csv, has_cols, pc, error,
           time, lat, dist_m, time_diff, speed_kmh, status, group_id,
           summary, total_time, total_dist, time_hand, time_crawler,
           time_wheel >>

----------------------------------------------------------------------------
(* Bounds of the model *)

\* longest uploaded track whose rows come in any order
MaxLen == 3

\* longest uploaded track whose rows come in non-decreasing time order
MaxOrderedLen == 4

\* timestamps a fix of a track in any order may carry (seconds); their
\* differences are 60, 180, 240, 600, 660 and 840
Times == {0, 180, 240, 840}

\* timestamps a fix of an ordered track may carry (seconds); their
\* differences are 60, 61, 121, 180, 240, 301, 539, 600, 660 and 840
OrderedTimes == {0, 180, 240, 301, 840}

\* latitudes a fix may carry (metres along the meridian); 250 m in 60 s is
\* 15 km/h, in 180 s it is 5 km/h, in 600 s it would be 1.5 km/h
Lats == {0, 250}

\* slider positions tried, in tenths of km/h: both ends of the hand slider,
\* the low end of the crawler slider and its default
HandChoices == {5, 50}
CrawlerChoices == {50, 150}

----------------------------------------------------------------------------
(* Program constants *)

\* slider ranges, in tenths of km/h
HandMin == 5
HandMax == 50
CrawlerMin == 50
CrawlerMax == 300

\* a time_diff at or above this is a data gap
GapLimit == 600

\* groups of at most this many minutes are dropped
NoiseLimit == 1

HAND == "hand"
CRAWLER == "crawler"
WHEEL == "wheel"

----------------------------------------------------------------------------
(* Exact rationals *)

Rat(n, d) == [n |-> n, d |-> d]
Zero == Rat(0, 1)
Less(a, b) == a.n * b.d < b.n * a.d
Same(a, b) == a.n * b.d = b.n * a.d
Add(a, b) == IF a.d = b.d THEN Rat(a.n + b.n, a.d)
             ELSE Rat(a.n * b.d + b.n * a.d, a.d * b.d)

RECURSIVE SumSeq(_)
SumSeq(s) == IF s = << >> THEN 0 ELSE Head(s) + SumSeq(Tail(s))

RECURSIVE SumRat(_)
SumRat(s) == IF s = << >> THEN Zero ELSE Add(Head(s), SumRat(Tail(s)))

Abs(x) == IF x < 0 THEN -x ELSE x

----------------------------------------------------------------------------
(* Pure parts of the script *)

\* the orders sort_values may leave the rows in: the row at position i of the
\* result is row p[i] of the input
\* (rows of equal time may come out in either order: the default sort kind
\* is not stable)
RECURSIVE Orders(_, _)
Orders(t, S) ==
  IF S = {} THEN { << >> }
  ELSE LET first == { i \in S : \A j \in S : t[i] <= t[j] }
       IN  UNION { { << i >> \o r : r \in Orders(t, S \ {i}) } : i \in first }

\* variant: the rows are left in file order
NoSortOrders(t) == { [i \in 1..Len(t) |-> i] }
sort_values(t) == Orders(t, 1..Len(t))

\* haversine distance of two fixes on one meridian
calc_distance(lat1, lat2) == Abs(lat2 - lat1)

\* dist_m of row i after fillna(0): the first row has no predecessor
DistOf(la, i) == IF i = 1 THEN 0 ELSE calc_distance(la[i-1], la[i])

\* variant: the first row's time_diff is its own timestamp
DiffFromEpoch(t, i) == IF i = 1 THEN t[i] ELSE t[i] - t[i-1]
\* time_diff of row i after fillna(0)
DiffOf(t, i) == IF i = 1 THEN 0 ELSE t[i] - t[i-1]

\* variants: a gap of exactly GapLimit still counts as movement; no gap rule
SpeedGapInclusive(d, td) ==
  IF td > 0 /\ td <= GapLimit THEN Rat(d * 36, td * 10) ELSE Zero
SpeedNoGapRule(d, td) ==
  IF td > 0 THEN Rat(d * 36, td * 10) ELSE Zero
\* speed in km/h of a row
SpeedOf(d, td) ==
  IF td > 0 /\ td < GapLimit THEN Rat(d * 36, td * 10) ELSE Zero

\* variant: a speed equal to a threshold falls into the lower band
ClassifyInclusive(speed, hand, crawler) ==
  IF Less(speed, hand) \/ Same(speed, hand) THEN HAND
  ELSE IF Less(speed, crawler) \/ Same(speed, crawler) THEN CRAWLER
  ELSE WHEEL
\* status of a row
classify_status(speed, hand, crawler) ==
  IF Less(speed, hand) THEN HAND
  ELSE IF Less(speed, crawler) THEN CRAWLER
  ELSE WHEEL

\* (status != status.shift()).cumsum() at row i
RECURSIVE GroupIdOf(_, _)
GroupIdOf(st, i) ==
  IF i = 1 THEN 1
  ELSE GroupIdOf(st, i - 1) + (IF st[i] # st[i-1] THEN 1 ELSE 0)

\* rows of one group, in row order
RowsOf(gid, g) == SelectSeq([i \in 1..Len(gid) |-> i], LAMBDA i : gid[i] = g)

Pick(col, rows) == [k \in 1..Len(rows) |-> col[rows[k]]]

\* variant: a group's duration is the span between its first and last row
DurationSpan(t, td, rows) == t[rows[Len(rows)]] - t[rows[1]]
DurationSec(t, td, rows) == SumSeq(Pick(td, rows))

\* variant: end_time aggregated with 'first'
EndTimeFirst(t, rows) == t[rows[1]]
EndTime(t, rows) == t[rows[Len(rows)]]

\* one row of df.groupby(['group_id', 'status']).agg(...)
GroupRow(t, td, st, gid, g) ==
  LET rows == RowsOf(gid, g)
  IN  [ group_id |-> g,
        status |-> st[rows[1]],
        start_time |-> t[rows[1]],
        end_time |-> EndTime(t, rows),
        duration_sec |-> DurationSec(t, td, rows) ]

GroupBy(t, td, st, gid) ==
  IF Len(gid) = 0 THEN << >>
  ELSE [g \in 1..gid[Len(gid)] |-> GroupRow(t, td, st, gid, g)]

WithMinutes(r) ==
  [ group_id |-> r.group_id, status |-> r.status,
    start_time |-> r.start_time, end_time |-> r.end_time,
    duration_sec |-> r.duration_sec,
    duration_min |-> Rat(r.duration_sec, 60) ]

\* variant: a group of exactly NoiseLimit minutes is kept
KeepAtLeast(r) == ~ Less(r.duration_min, Rat(NoiseLimit, 1))
Keep(r) == Less(Rat(NoiseLimit, 1), r.duration_min)

NoiseFilter(s) ==
  SelectSeq([k \in 1..Len(s) |-> WithMinutes(s[k])], Keep)

\* variant: total_time taken from the filtered summary
TotalFromSummary(td, s) ==
  SumRat([k \in 1..Len(s) |-> s[k].duration_min])
TotalTime(td, s) == Rat(SumSeq(td), 60)

TotalDist(d) == Rat(SumSeq(d), 1000)

LabelTime(s, label) ==
  LET sel == SelectSeq(s, LAMBDA r : r.status = label)
  IN  SumRat([k \in 1..Len(sel) |-> sel[k].duration_min])

----------------------------------------------------------------------------
(* The script *)

\* a row of the file: time and position
Fixes == [time : Times \cup OrderedTimes, lat : Lats]

Tracks == UNION { [1..n -> [time : Times, lat : Lats]] : n \in 0..MaxLen }

\* the tracks of n fixes in non-decreasing time order
RECURSIVE Ascending(_)
Ascending(n) ==
  IF n = 0 THEN { << >> }
  ELSE UNION { { Append(tr, f) :
                   f \in { g \in [time : OrderedTimes, lat : Lats] :
                             n = 1 \/ tr[n-1].time <= g.time } } :
               tr \in Ascending(n - 1) }

OrderedTracks == UNION { Ascending(n) : n \in 0..MaxOrderedLen }

Start ==
  /\ hand_threshold \in
       { Rat(k, 10) : k \in HandChoices \cap (HandMin..HandMax) }
  /\ crawler_threshold \in
       { Rat(k, 10) : k \in CrawlerChoices \cap (CrawlerMin..CrawlerMax) }
  /\ has_cols \in BOOLEAN
  /\ pc = "uploaded"
  /\ error = "none"
  /\ time = << >> /\ lat = << >>
  /\ dist_m = << >> /\ time_diff = << >>
  /\ speed_kmh = << >> /\ status = << >> /\ group_id = << >>
  /\ summary = << >>
  /\ total_time = Zero /\ total_dist = Zero
  /\ time_hand = Zero /\ time_crawler = Zero /\ time_wheel = Zero

\* an upload of rows in any order
Init ==
  /\ Start
  /\ csv \in IF has_cols THEN Tracks ELSE { << >> }

\* an upload of rows in non-decreasing time order
InitOrdered ==
  /\ Start
  /\ csv \in IF has_cols THEN OrderedTracks ELSE { << >> }

\* lines 59-61: a required column is missing
MissingColumns ==
  /\ pc = "uploaded"
  /\ ~ has_cols
  /\ error' = "missing_columns"
  /\ pc' = "stopped"
  /\ UNCHANGED << hand_threshold, crawler_threshold, csv, has_cols,
                  time, lat, dist_m, time_diff, speed_kmh, status, group_id,
                  summary, total_time, total_dist, time_hand, time_crawler,
                  time_wheel >>

\* lines 53-65: read the rows and sort them by time
ReadAndSort ==
  /\ pc = "uploaded"
  /\ has_cols
  /\ \E p \in sort_values([i \in 1..Len(csv) |-> csv[i].time]) :
       /\ time' = [i \in 1..Len(csv) |-> csv[p[i]].time]
       /\ lat' = [i \in 1..Len(csv) |-> csv[p[i]].lat]
  /\ pc' = "sorted"
  /\ UNCHANGED << hand_threshold, crawler_threshold, csv, has_cols, error,
                  dist_m, time_diff, speed_kmh, status, group_id,
                  summary, total_time, total_dist, time_hand, time_crawler,
                  time_wheel >>

\* lines 79-85: dist_m, time_diff, fillna(0), speed_kmh
Derive ==
  /\ pc = "sorted"
  /\ dist_m' = [i \in 1..Len(time) |-> DistOf(lat, i)]
  /\ time_diff' = [i \in 1..Len(time) |-> DiffOf(time, i)]
  /\ speed_kmh' = [i \in 1..Len(time) |->
                     SpeedOf(DistOf(lat, i), DiffOf(time, i))]
  /\ pc' = "derived"
  /\ UNCHANGED << hand_threshold, crawler_threshold, csv, has_cols, error,
                  time, lat, status, group_id,
                  summary, total_time, total_dist, time_hand, time_crawler,
                  time_wheel >>

\* line 96: status
Classify ==
  /\ pc = "derived"
  /\ status' = [i \in 1..Len(time) |->
                  classify_status(speed_kmh[i], hand_threshold,
                                  crawler_threshold)]
  /\ pc' = "classified"
  /\ UNCHANGED << hand_threshold, crawler_threshold, csv, has_cols, error,
                  time, lat, dist_m, time_diff, speed_kmh, group_id,
                  summary, total_time, total_dist, time_hand, time_crawler,
                  time_wheel >>

\* lines 101-107: group_id and the grouped summary
Group ==
  /\ pc = "classified"
  /\ group_id' = [i \in 1..Len(time) |-> GroupIdOf(status, i)]
  /\ summary' = GroupBy(time, time_diff, status, group_id')
  /\ pc' = "grouped"
  /\ UNCHANGED << hand_threshold, crawler_threshold, csv, has_cols, error,
                  time, lat, dist_m, time_diff, speed_kmh, status,
                  total_time, total_dist, time_hand, time_crawler,
                  time_wheel >>

\* lines 109-110: duration_min and the noise filter
Filter ==
  /\ pc = "grouped"
  /\ summary' = NoiseFilter(summary)
  /\ pc' = "filtered"
  /\ UNCHANGED << hand_threshold, crawler_threshold, csv, has_cols, error,
                  time, lat, dist_m, time_diff, speed_kmh, status, group_id,
                  total_time, total_dist, time_hand, time_crawler,
                  time_wheel >>

\* lines 113-118: the KPIs
Kpi ==
  /\ pc = "filtered"
  /\ total_time' = TotalTime(time_diff, summary)
  /\ total_dist' = TotalDist(dist_m)
  /\ time_hand' = LabelTime(summary, HAND)
  /\ time_crawler' = LabelTime(summary, CRAWLER)
  /\ time_wheel' = LabelTime(summary, WHEEL)
  /\ pc' = "done"
  /\ UNCHANGED << hand_threshold, crawler_threshold, csv, has_cols, error,
                  time, lat, dist_m, time_diff, speed_kmh, status, group_id,
                  summary >>

Next ==
  \/ MissingColumns
  \/ ReadAndSort
  \/ Derive
  \/ Classify
  \/ Group
  \/ Filter
  \/ Kpi

Spec == Init /\ [][Next]_vars

SpecOrdered == InitOrdered /\ [][Next]_vars

----------------------------------------------------------------------------
(* Vocabulary of the properties *)

AfterSort == pc \in {"sorted", "derived", "classified", "grouped",
                     "filtered", "done"}
AfterDerive == pc \in {"derived", "classified", "grouped", "filtered", "done"}
AfterClassify == pc \in {"classified", "grouped", "filtered", "done"}
AfterGroup == pc \in {"grouped", "filtered", "done"}
AfterFilter == pc \in {"filtered", "done"}

Rows == 1..Len(time)
Runs == 1..Len(summary)

\* sum of column col over the set of rows S
RECURSIVE SumOver(_, _)
SumOver(col, S) ==
  IF S = {} THEN 0
  ELSE LET i == CHOOSE x \in S : TRUE IN col[i] + SumOver(col, S \ {i})

Min(S) == CHOOSE x \in S : \A y \in S : x <= y
Max(S) == CHOOSE x \in S : \A y \in S : y <= x

\* the rows of run g, read off the group_id column
Members(g) == { i \in Rows : group_id[i] = g }
GroupIds == { group_id[i] : i \in Rows }
Elapsed(g) == SumOver(time_diff, Members(g))

\* the uploaded rows are in non-decreasing time order
InputOrdered == \A i \in 1..Len(csv) : i > 1 => csv[i-1].time <= csv[i].time

----------------------------------------------------------------------------
(* C1: before the noise filter the durations of all runs add up exactly to
   the sum of time_diff over all rows, every run's duration being the sum of
   the time_diff of its own rows (its first row included), and total_time is
   that sum in minutes. *)
DurationsCoverElapsed ==
  /\ pc = "grouped" =>
       /\ SumOver([k \in Runs |-> summary[k].duration_sec], Runs)
            = SumSeq(time_diff)
       /\ \A k \in Runs :
            summary[k].duration_sec = Elapsed(summary[k].group_id)
       /\ \A i \in Rows :
            Cardinality({ k \in Runs : summary[k].group_id = group_id[i] }) = 1
  /\ pc = "done" => total_time.n * 60 = SumSeq(time_diff) * total_time.d

\* two runs, the second one starting after a positive elapsed time
DurationsCoverElapsedWitness ==
  /\ pc = "grouped"
  /\ Len(summary) >= 2
  /\ \E i \in Rows : i > 1 /\ group_id[i] # group_id[i-1] /\ time_diff[i] > 0

(* C2: the filtered summary is exactly the runs of more than 60 seconds:
   a run of 60 s or less has no row, every other run has exactly one row
   with its label, start, end and duration unchanged, and the rows stay in
   chronological order. *)
FilterKeepsLongRuns ==
  AfterFilter =>
    /\ \A g \in GroupIds :
         IF Elapsed(g) > 60
         THEN /\ Cardinality({ k \in Runs : summary[k].group_id = g }) = 1
              /\ \A k \in Runs : summary[k].group_id = g =>
                   /\ summary[k].status = status[Min(Members(g))]
                   /\ summary[k].start_time = time[Min(Members(g))]
                   /\ summary[k].end_time = time[Max(Members(g))]
                   /\ summary[k].duration_sec = Elapsed(g)
         ELSE \A k \in Runs : summary[k].group_id # g
    /\ \A k \in Runs : summary[k].group_id \in GroupIds
    /\ \A k, l \in Runs : k < l =>
         /\ summary[k].group_id < summary[l].group_id
         /\ summary[k].start_time <= summary[l].start_time

\* a run of exactly 60 s was dropped from between two runs of one label,
\* which both survived as rows of their own
FilterKeepsLongRunsWitness ==
  /\ pc = "filtered"
  /\ \E g \in GroupIds :
       /\ Elapsed(g) = 60
       /\ \E k \in Runs :
            /\ k < Len(summary)
            /\ summary[k].group_id = g - 1
            /\ summary[k+1].group_id = g + 1
            /\ summary[k].status = summary[k+1].status

(* C3: speed_kmh is 0 when time_diff <= 0 or time_diff >= 600 and
   dist_m / time_diff * 3.6 otherwise; with 0 < time_diff < 600 a non-zero
   distance gives a non-zero speed. *)
SpeedRule ==
  AfterDerive =>
    \A i \in Rows :
      IF time_diff[i] <= 0 \/ time_diff[i] >= 600
      THEN speed_kmh[i].n = 0
      ELSE /\ speed_kmh[i].n * 10 * time_diff[i]
                = 36 * dist_m[i] * speed_kmh[i].d
           /\ dist_m[i] # 0 => speed_kmh[i].n # 0

\* a track with a moving row of exactly 600 s and a moving row below 600 s
SpeedRuleWitness ==
  /\ pc = "derived"
  /\ \E i \in Rows : time_diff[i] = 600 /\ dist_m[i] # 0
  /\ \E i \in Rows : time_diff[i] > 0 /\ time_diff[i] < 600 /\ dist_m[i] # 0

(* C4: the status of a row depends on its own speed and the two thresholds
   only: below hand_threshold it is HAND, from hand_threshold up to but not
   including crawler_threshold it is CRAWLER, from crawler_threshold on it
   is WHEEL; a speed equal to a threshold is in the higher band. *)
ClassificationBands ==
  AfterClassify =>
    /\ \A i \in Rows :
         /\ status[i] \in {HAND, CRAWLER, WHEEL}
         /\ Less(speed_kmh[i], hand_threshold) => status[i] = HAND
         /\ ( /\ ~ Less(speed_kmh[i], hand_threshold)
              /\ Less(speed_kmh[i], crawler_threshold) )
              => status[i] = CRAWLER
         /\ ~ Less(speed_kmh[i], crawler_threshold) => status[i] = WHEEL
         /\ Same(speed_kmh[i], hand_threshold) => status[i] # HAND
         /\ Same(speed_kmh[i], crawler_threshold) => status[i] = WHEEL
    /\ \A i, j \in Rows :
         Same(speed_kmh[i], speed_kmh[j]) => status[i] = status[j]

\* a row whose speed is exactly the lower threshold, in the middle band
ClassificationBandsWitness ==
  /\ pc = "classified"
  /\ Less(hand_threshold, crawler_threshold)
  /\ \E i \in Rows :
       Same(speed_kmh[i], hand_threshold) /\ status[i] = CRAWLER

(* C5: for an input in non-decreasing time order, each label's total is the
   sum of the minutes of the surviving rows with that label, total_time is
   the sum of time_diff over all rows in minutes whatever was dropped, and
   the three label totals add up to total_time less the dropped runs'
   durations, hence to no more than total_time. *)
LabelTotals ==
  (pc = "done" /\ InputOrdered) =>
    LET of(label) == { k \in Runs : summary[k].status = label }
        secs(label) ==
          SumOver([k \in Runs |-> summary[k].duration_sec], of(label))
        dropped == { g \in GroupIds : Elapsed(g) <= 60 }
        droppedSecs == SumOver([g \in GroupIds |-> Elapsed(g)], dropped)
        labelled == Add(time_hand, Add(time_crawler, time_wheel))
    IN  /\ Same(time_hand, Rat(secs(HAND), 60))
        /\ Same(time_crawler, Rat(secs(CRAWLER), 60))
        /\ Same(time_wheel, Rat(secs(WHEEL), 60))
        /\ Same(total_time, Rat(SumSeq(time_diff), 60))
        /\ Same(labelled, Rat(SumSeq(time_diff) - droppedSecs, 60))
        /\ ~ Less(total_time, labelled)

\* an ordered input of which one run was dropped with a positive duration
\* and another survived
LabelTotalsWitness ==
  /\ pc = "done"
  /\ InputOrdered
  /\ \E g \in GroupIds : Elapsed(g) > 0 /\ Elapsed(g) <= 60
  /\ Len(summary) >= 1

(* C6: a track of one fix runs through without error and gives one row with
   dist_m = 0, time_diff = 0 and speed_kmh = 0; its single run has duration
   0 and is dropped, so the summary is empty and every label total is 0. *)
SingleFix ==
  (has_cols /\ Len(csv) = 1) =>
    /\ error = "none" /\ pc # "stopped"
    /\ AfterSort => Len(time) = 1
    /\ AfterDerive =>
         /\ dist_m = << 0 >> /\ time_diff = << 0 >>
         /\ Len(speed_kmh) = 1 /\ speed_kmh[1].n = 0
    /\ pc = "grouped" => Len(summary) = 1 /\ summary[1].duration_sec = 0
    /\ AfterFilter => summary = << >>
    /\ pc = "done" =>
         time_hand.n = 0 /\ time_crawler.n = 0 /\ time_wheel.n = 0

\* the script has finished on a single fix taken at a time other than 0
SingleFixWitness ==
  /\ pc = "done"
  /\ has_cols /\ Len(csv) = 1 /\ csv[1].time # 0

(* C7 as stated: when a fix is earlier than its predecessor the script
   raises nothing, keeps the rows in the uploaded order, gives that row
   speed 0, and no speed, run duration or total is negative. *)
UnorderedKeptInPlace ==
  (has_cols /\ ~ InputOrdered) =>
    /\ error = "none"
    /\ AfterSort => time = [i \in 1..Len(csv) |-> csv[i].time]
    /\ AfterDerive =>
         /\ \A i \in Rows :
              (i > 1 /\ csv[i].time < csv[i-1].time) => speed_kmh[i].n = 0
         /\ \A i \in Rows : speed_kmh[i].n >= 0
    /\ AfterGroup => \A k \in Runs : summary[k].duration_sec >= 0
    /\ pc = "done" => total_time.n >= 0

(* C7 amended: when a fix is earlier than its predecessor the script raises
   nothing and sorts the rows by time, keeping every uploaded row; hence no
   time_diff is negative, and no speed, run duration or total is negative. *)
UnorderedIsSorted ==
  (has_cols /\ ~ InputOrdered) =>
    /\ error = "none" /\ pc # "stopped"
    /\ AfterSort =>
         /\ Len(time) = Len(csv)
         /\ \A i \in Rows : i > 1 => time[i-1] <= time[i]
         /\ \A f \in Fixes :
              Cardinality({ i \in Rows : time[i] = f.time /\ lat[i] = f.lat })
                = Cardinality({ i \in 1..Len(csv) : csv[i] = f })
    /\ AfterDerive =>
         /\ \A i \in Rows : time_diff[i] >= 0
         /\ \A i \in Rows : speed_kmh[i].n >= 0 /\ speed_kmh[i].d > 0
    /\ AfterGroup => \A k \in Runs : summary[k].duration_sec >= 0
    /\ pc = "done" => total_time.n >= 0

\* the script has finished on an input whose last fix is earlier than the
\* one before it
UnorderedIsSortedWitness ==
  /\ pc = "done"
  /\ has_cols
  /\ Len(csv) >= 2
  /\ csv[Len(csv)].time < csv[Len(csv) - 1].time

(* C8: an input of zero fixes ends in an InsufficientData error shown to
   the user, an input of one fix ends without error. *)
ZeroFixesRejected ==
  (has_cols /\ pc \in {"done", "stopped"}) =>
    /\ Len(csv) = 0 => error = "InsufficientData"
    /\ Len(csv) = 1 => error = "none"

(* C9: the runs are maximal: row 1 starts run 1, a later row starts a new
   run exactly when its status differs from the row before, every row lies
   in exactly one run and has that run's status, neighbouring runs differ in
   status, and a run's start_time and end_time are the times of its first
   and last row. *)
MaximalRuns ==
  pc = "grouped" =>
    /\ Len(time) >= 1 => group_id[1] = 1
    /\ \A i \in Rows : i > 1 =>
         group_id[i] = (IF status[i] # status[i-1]
                        THEN group_id[i-1] + 1 ELSE group_id[i-1])
    /\ Len(summary) = Cardinality(GroupIds)
    /\ \A i \in Rows :
         /\ Cardinality({ k \in Runs : summary[k].group_id = group_id[i] }) = 1
         /\ \A k \in Runs : summary[k].group_id = group_id[i] =>
              summary[k].status = status[i]
    /\ \A k \in Runs : k > 1 => summary[k].status # summary[k-1].status
    /\ \A k \in Runs :
         /\ Members(summary[k].group_id) # {}
         /\ summary[k].start_time = time[Min(Members(summary[k].group_id))]
         /\ summary[k].end_time = time[Max(Members(summary[k].group_id))]

\* two runs, one of them of two rows taken at different times
MaximalRunsWitness ==
  /\ pc = "grouped"
  /\ Len(summary) >= 2
  /\ \E i \in Rows :
       i > 1 /\ group_id[i] = group_id[i-1] /\ time[i] # time[i-1]

(* C10: with the thresholds inside the slider ranges every row of speed 0
   is HAND: the first row, every row with time_diff <= 0 and every data-gap
   row (time_diff >= 600); the run a data-gap row lies in is a HAND run and
   its duration includes the whole gap. *)
GapsAreStationary ==
  ( /\ ~ Less(hand_threshold, Rat(HandMin, 10))
    /\ ~ Less(Rat(HandMax, 10), hand_threshold)
    /\ ~ Less(crawler_threshold, Rat(CrawlerMin, 10))
    /\ ~ Less(Rat(CrawlerMax, 10), crawler_threshold) ) =>
    /\ AfterClassify =>
         \A i \in Rows :
           /\ speed_kmh[i].n = 0 => status[i] = HAND
           /\ (i = 1 \/ time_diff[i] <= 0 \/ time_diff[i] >= 600)
                => status[i] = HAND
    /\ AfterGroup =>
         \A i \in Rows : time_diff[i] >= 600 =>
           /\ status[i] = HAND
           /\ pc = "grouped" =>
                \A k \in Runs : summary[k].group_id = group_id[i] =>
                  /\ summary[k].status = HAND
                  /\ summary[k].duration_sec >= time_diff[i]

\* a data gap across which the position changed, after grouping
GapsAreStationaryWitness ==
  /\ pc = "grouped"
  /\ \E i \in Rows : time_diff[i] >= 600 /\ dist_m[i] # 0

====
